---- MODULE Spec2Model ----
(***************************************************************************)
(* Model of src/src/crypto/ark.rs: the Scalar / Point / PrivateKey /       *)
(* PublicKey layer over the pairing library's G1 group and scalar field.   *)
(*                                                                         *)
(* The curve is scaled down so that TLC can enumerate it.  BLS12-381 G1 is *)
(* y^2 = x^3 + 4 over a 381-bit prime, of order cofactor * r with r the    *)
(* 255-bit scalar modulus.  The model keeps the equation y^2 = x^3 + 4 and *)
(* the shape "cofactor > 1, prime-order subgroup", on the 13-element base  *)
(* field: 21 = 3 * 7 points, scalar field of 7 elements.  Field elements   *)
(* are their canonical integers; group elements are Jacobian triples, as   *)
(* in the library, so that one group element has many representations.     *)
(***************************************************************************)
EXTENDS Integers, Sequences, FiniteSets

VARIABLES a, b, c, P, Q, op, args, ret, calls

vars == <<a, b, c, P, Q, op, args, ret, calls>>

(***************************************************************************)
(* Parameters of the scaled-down curve (type aliases, lines 12-14).        *)
(***************************************************************************)
FrModulus == 7
FrBits == 3
FrBytes == 1
FqModulus == 13
FqBits == 4
FqBytes == 1
CurveB == 4
Cofactor == 3
GeneratorSeed == 42

(***************************************************************************)
(* Bounds of the exploration.                                              *)
(***************************************************************************)
MaxU32 == 8
MaxPow == 10
MaxPoints == 2
MaxCalls == 2
MaxExtra == 1

(***************************************************************************)
(* Results of a call: a value, or the panic raised by expect().            *)
(***************************************************************************)
Ok(k, v) == [kind |-> k, val |-> v]
Panic(msg) == [kind |-> "panic", val |-> msg]
NoCall == [kind |-> "none", val |-> ""]

(***************************************************************************)
(* Prime-field arithmetic of the library, on canonical integers.           *)
(***************************************************************************)
FAdd(m, x, y) == IF x + y >= m THEN x + y - m ELSE x + y
FSub(m, x, y) == IF y > x THEN x + m - y ELSE x - y
FNeg(m, x) == IF x = 0 THEN 0 ELSE m - x
FMul(m, x, y) == (x * y) % m
FDouble(m, x) == FAdd(m, x, x)

\* The bits of n, most significant first, without leading zeros.
RECURSIVE BitsBE(_)
BitsBE(n) == IF n = 0 THEN <<>> ELSE Append(BitsBE(n \div 2), n % 2)

\* The bits of n, most significant first, on exactly w bits.
RECURSIVE BitsFixed(_, _)
BitsFixed(n, w) == IF w = 0 THEN <<>> ELSE Append(BitsFixed(n \div 2, w - 1), n % 2)

\* Field::pow: square-and-multiply over the exponent's bits, from res = 1.
RECURSIVE FPowBits(_, _, _, _)
FPowBits(m, x, bits, res) ==
    IF bits = <<>> THEN res
    ELSE LET sq == FMul(m, res, res)
             nx == IF Head(bits) = 1 THEN FMul(m, sq, x) ELSE sq
         IN FPowBits(m, x, Tail(bits), nx)

FPow(m, x, e) == FPowBits(m, x, BitsBE(e), 1 % m)

\* Field::inverse: None on zero, else the binary extended Euclidean loop.
RECURSIVE FHalve(_, _, _)
FHalve(m, u, s) ==
    IF u % 2 = 0
    THEN FHalve(m, u \div 2, IF s % 2 = 0 THEN s \div 2 ELSE (s + m) \div 2)
    ELSE <<u, s>>

RECURSIVE FInvLoop(_, _, _, _, _)
FInvLoop(m, u, v, s, t) ==
    IF u = 1 THEN s
    ELSE IF v = 1 THEN t
    ELSE LET hu == FHalve(m, u, s)
             hv == FHalve(m, v, t)
         IN IF hv[1] < hu[1]
            THEN FInvLoop(m, hu[1] - hv[1], hv[1], FSub(m, hu[2], hv[2]), hv[2])
            ELSE FInvLoop(m, hu[1], hv[1] - hu[1], hu[2], FSub(m, hv[2], hu[2]))

FInverse(m, x) == IF x = 0 THEN Panic("None") ELSE Ok("field", FInvLoop(m, x, m, 1, 0))

\* Field::sqrt: a root when one exists.
FIsSquare(m, x) == \E y \in 0..(m - 1) : FMul(m, y, y) = x
FSqrt(m, x) == CHOOSE y \in 0..(m - 1) : FMul(m, y, y) = x

\* ToBytes for a field element: its canonical integer, little-endian, fixed width.
FWrite(x, w) == [i \in 1..w |-> (x \div (256 ^ (i - 1))) % 256]

RECURSIVE LEValue(_)
LEValue(bs) == IF bs = <<>> THEN 0 ELSE Head(bs) + 256 * LEValue(Tail(bs))

\* FromBytes for a field element: read_exact of w bytes, then the range check.
FRead(m, w, bs) ==
    IF Len(bs) < w THEN Panic("UnexpectedEof")
    ELSE LET v == LEValue(SubSeq(bs, 1, w))
         IN IF v >= m THEN Panic("FromBytes::read failed") ELSE Ok("field", v)

(***************************************************************************)
(* The base field Fq and the scalar field Fr.                              *)
(***************************************************************************)
Fq == 0..(FqModulus - 1)
Fr == 0..(FrModulus - 1)
QAdd(x, y) == FAdd(FqModulus, x, y)
QSub(x, y) == FSub(FqModulus, x, y)
QMul(x, y) == FMul(FqModulus, x, y)
QSq(x) == FMul(FqModulus, x, x)
QDbl(x) == FDouble(FqModulus, x)
QNeg(x) == FNeg(FqModulus, x)
QInv(x) == FInverse(FqModulus, x).val

(***************************************************************************)
(* G1 in Jacobian coordinates (Group381) and in affine form (Affine381).   *)
(***************************************************************************)
Proj(x, y, z) == [x |-> x, y |-> y, z |-> z]
Aff(x, y, inf) == [x |-> x, y |-> y, infinity |-> inf]

\* GroupProjective::zero and GroupAffine::zero.
ProjZero == Proj(0, 1, 0)
AffZero == Aff(0, 1, TRUE)
ProjIsZero(p) == p.z = 0

\* From<GroupProjective> for GroupAffine: normalise by the inverse of z.
into_affine(p) ==
    IF ProjIsZero(p) THEN AffZero
    ELSE IF p.z = 1 THEN Aff(p.x, p.y, FALSE)
    ELSE LET zinv == QInv(p.z)
             zinv2 == QSq(zinv)
         IN Aff(QMul(p.x, zinv2), QMul(p.y, QMul(zinv2, zinv)), FALSE)

\* From<GroupAffine> for GroupProjective.
into_projective(q) == IF q.infinity THEN ProjZero ELSE Proj(q.x, q.y, 1)

\* double_in_place, for a = 0.
ProjDouble(p) ==
    IF ProjIsZero(p) THEN p
    ELSE LET A == QSq(p.x)
             B == QSq(p.y)
             C == QSq(B)
             D == QDbl(QSub(QSub(QSq(QAdd(p.x, B)), A), C))
             E == QAdd(QDbl(A), A)
             F == QSq(E)
             x3 == QSub(F, QDbl(D))
             y3 == QSub(QMul(E, QSub(D, x3)), QDbl(QDbl(QDbl(C))))
             z3 == QDbl(QMul(p.y, p.z))
         IN Proj(x3, y3, z3)

\* add_assign: Jacobian + Jacobian.
ProjAdd(p, q) ==
    IF ProjIsZero(p) THEN q
    ELSE IF ProjIsZero(q) THEN p
    ELSE LET z1z1 == QSq(p.z)
             z2z2 == QSq(q.z)
             u1 == QMul(p.x, z2z2)
             u2 == QMul(q.x, z1z1)
             s1 == QMul(QMul(p.y, q.z), z2z2)
             s2 == QMul(QMul(q.y, p.z), z1z1)
         IN IF u1 = u2 /\ s1 = s2 THEN ProjDouble(p)
            ELSE LET h == QSub(u2, u1)
                     i == QSq(QDbl(h))
                     j == QMul(h, i)
                     r == QDbl(QSub(s2, s1))
                     v == QMul(u1, i)
                     x3 == QSub(QSub(QSq(r), j), QDbl(v))
                     y3 == QSub(QMul(r, QSub(v, x3)), QDbl(QMul(s1, j)))
                     z3 == QMul(QSub(QSub(QSq(QAdd(p.z, q.z)), z1z1), z2z2), h)
                 IN Proj(x3, y3, z3)

\* add_assign_mixed: Jacobian + affine.
ProjAddMixed(p, q) ==
    IF q.infinity THEN p
    ELSE IF ProjIsZero(p) THEN Proj(q.x, q.y, 1)
    ELSE LET z1z1 == QSq(p.z)
             u2 == QMul(q.x, z1z1)
             s2 == QMul(QMul(q.y, p.z), z1z1)
         IN IF p.x = u2 /\ p.y = s2 THEN ProjDouble(p)
            ELSE LET h == QSub(u2, p.x)
                     hh == QSq(h)
                     i == QDbl(QDbl(hh))
                     j == QMul(h, i)
                     r == QDbl(QSub(s2, p.y))
                     v == QMul(p.x, i)
                     x3 == QSub(QSub(QSq(r), j), QDbl(v))
                     y3 == QSub(QMul(r, QSub(v, x3)), QDbl(QMul(p.y, j)))
                     z3 == QSub(QSub(QSq(QAdd(p.z, h)), z1z1), hh)
                 IN Proj(x3, y3, z3)

\* Neg for GroupProjective.
ProjNeg(p) == IF ProjIsZero(p) THEN p ELSE Proj(p.x, QNeg(p.y), p.z)

ProjSub(p, q) == ProjAdd(p, ProjNeg(q))

\* mul_bits: double-and-add over the bits, most significant first.
RECURSIVE MulBits(_, _, _)
MulBits(q, bits, res) ==
    IF bits = <<>> THEN res
    ELSE LET d == ProjDouble(res)
             nx == IF Head(bits) = 1 THEN ProjAddMixed(d, q) ELSE d
         IN MulBits(q, Tail(bits), nx)

\* AffineCurve::mul by a scalar's canonical integer.
AffMul(q, n) == MulBits(q, BitsFixed(n, FrBits), ProjZero)

\* scale_by_cofactor.
ScaleByCofactor(q) == MulBits(q, BitsBE(Cofactor), ProjZero)

\* ToBytes / FromBytes for GroupAffine: x, y, then the infinity flag.
AffWrite(q) ==
    FWrite(q.x, FqBytes) \o FWrite(q.y, FqBytes) \o <<IF q.infinity THEN 1 ELSE 0>>

AffRead(bs) ==
    LET rx == FRead(FqModulus, FqBytes, bs)
        ry == FRead(FqModulus, FqBytes, SubSeq(bs, FqBytes + 1, Len(bs)))
        fl == SubSeq(bs, 2 * FqBytes + 1, Len(bs))
    IN IF rx.kind = "panic" THEN rx
       ELSE IF ry.kind = "panic" THEN ry
       ELSE IF fl = <<>> THEN Panic("UnexpectedEof")
       ELSE IF Head(fl) \notin {0, 1} THEN Panic("FromBytes::read failed")
       ELSE Ok("affine", Aff(rx.val, ry.val, Head(fl) = 1))

(***************************************************************************)
(* The seeded generator (StdRng) and the digest, reduced to one byte of    *)
(* state: both are deterministic functions of their input, which is what   *)
(* the program relies on.                                                  *)
(***************************************************************************)
RngSpace == 256
RngNext(st) == (5 * st + 3) % RngSpace
seed_from_u64(n) == n % RngSpace
from_seed(dig) == dig

RECURSIVE Sha256Fold(_, _)
Sha256Fold(h, data) ==
    IF data = <<>> THEN h
    ELSE Sha256Fold((33 * h + Head(data) + 1) % RngSpace, Tail(data))

Sha256(data) == Sha256Fold(17, data)

\* UniformRand for a field: draw words, mask to the modulus' bits, retry until
\* the value is below the modulus.  Returns <<value, generator state>>.
RECURSIVE FRand(_, _, _)
FRand(m, bits, st) ==
    LET nx == RngNext(st)
        v == nx % (2 ^ bits)
    IN IF v < m THEN <<v, nx>> ELSE FRand(m, bits, nx)

\* get_point_from_x: the point of abscissa x, its ordinate chosen by `greatest`.
HasPointAtX(x) == FIsSquare(FqModulus, QAdd(QMul(QSq(x), x), CurveB % FqModulus))

get_point_from_x(x, greatest) ==
    LET y == FSqrt(FqModulus, QAdd(QMul(QSq(x), x), CurveB % FqModulus))
        negy == QNeg(y)
    IN Aff(x, IF (y < negy) # greatest THEN y ELSE negy, FALSE)

\* UniformRand for Group381: sample x and a sign until x is on the curve, then
\* clear the cofactor.
RECURSIVE GroupRand(_)
GroupRand(st) ==
    LET fx == FRand(FqModulus, FqBits, st)
        st2 == RngNext(fx[2])
        greatest == (st2 \div 128) = 1
    IN IF HasPointAtX(fx[1])
       THEN ScaleByCofactor(get_point_from_x(fx[1], greatest))
       ELSE GroupRand(st2)

(***************************************************************************)
(* src/src/crypto/ark.rs                                                   *)
(***************************************************************************)
MkScalar(n) == [bn |-> n]
MkPoint(p) == [point |-> p]

get_point_at_infinity == ProjZero

curve_generator == GroupRand(seed_from_u64(GeneratorSeed))

\* BigInt381::from(v): every u32 is below the real modulus; on the scaled
\* field the integer is reduced.
Scalar_from_u32(v) == MkScalar(v % FrModulus)

\* `raw` is what the entropy-seeded sampler returned.
Scalar_generate(raw) == MkScalar(raw)

Scalar_multiplicative_identity == Scalar_from_u32(1)

\* Variant: the accumulator starts at the base instead of one.
Scalar_pow_mut(s, pow) == MkScalar(FPowBits(FrModulus, s.bn, BitsBE(pow), s.bn))

Scalar_pow(s, pow) == MkScalar(FPow(FrModulus, s.bn, pow))

\* Variant: the missing inverse defaults to zero instead of panicking.
Scalar_inverse_mut(s) ==
    LET r == FInverse(FrModulus, s.bn)
    IN Ok("scalar", MkScalar(IF r.kind = "panic" THEN 0 ELSE r.val))

Scalar_inverse(s) ==
    LET r == FInverse(FrModulus, s.bn)
    IN IF r.kind = "panic" THEN Panic("Inverse failure")
       ELSE Ok("scalar", MkScalar(r.val))

Scalar_to_bytes(s) == FWrite(s.bn, FrBytes)

Scalar_from_bytes(bytes) ==
    LET r == FRead(FrModulus, FrBytes, bytes)
    IN IF r.kind = "panic" THEN Panic("Could not create PublicKey from bytes")
       ELSE Ok("scalar", MkScalar(r.val))

Scalar_add(s, t) == MkScalar(FAdd(FrModulus, s.bn, t.bn))
\* Variant: subtraction without the borrow of the modulus.
Scalar_sub_mut(s, t) == MkScalar(IF t.bn > s.bn THEN t.bn - s.bn ELSE s.bn - t.bn)

Scalar_sub(s, t) == MkScalar(FSub(FrModulus, s.bn, t.bn))
Scalar_mul(s, t) == MkScalar(FMul(FrModulus, s.bn, t.bn))
Scalar_eq(s, t) == s.bn = t.bn

Point_infinity == MkPoint(get_point_at_infinity)
Point_generator == MkPoint(curve_generator)
\* Variant: the base is sampled from another seed than Point::generator's.
Point_from_scalar_mut(s) ==
    MkPoint(AffMul(into_affine(GroupRand(seed_from_u64(GeneratorSeed + 1))), s.bn))

Point_from_scalar(s) == MkPoint(AffMul(into_affine(curve_generator), s.bn))
Point_mul(p, s) == MkPoint(AffMul(into_affine(p.point), s.bn))
Point_inverse(p) == MkPoint(ProjNeg(p.point))
\* Variant: the Jacobian x and y are written without normalising.
Point_to_bytes_mut(p) == AffWrite(Aff(p.point.x, p.point.y, ProjIsZero(p.point)))

Point_to_bytes(p) == AffWrite(into_affine(p.point))
Point_add(p, q) == MkPoint(ProjAdd(p.point, q.point))
Point_sub(p, q) == MkPoint(ProjSub(p.point, q.point))
\* Variant: the internal coordinates are compared.
Point_eq_mut(p, q) == p.point = q.point

Point_eq(p, q) == into_affine(p.point) = into_affine(q.point)

RECURSIVE HashData(_)
HashData(points) ==
    IF points = <<>> THEN <<>>
    ELSE Point_to_bytes(Head(points)) \o HashData(Tail(points))

\* Variant: the internal coordinates are hashed, not the canonical encoding.
RECURSIVE RawData(_)
RawData(points) ==
    IF points = <<>> THEN <<>>
    ELSE <<Head(points).point.x, Head(points).point.y, Head(points).point.z>>
            \o RawData(Tail(points))

Scalar_hash_points_mut(points) ==
    MkScalar(FRand(FrModulus, FrBits, from_seed(Sha256(RawData(points))))[1])

Scalar_hash_points(points) ==
    LET dig == Sha256(HashData(points))
    IN MkScalar(FRand(FrModulus, FrBits, from_seed(dig))[1])

PublicKey_to_bytes(k) == Point_to_bytes(k.point)

PublicKey_from_bytes(bytes) ==
    LET r == AffRead(bytes)
    IN IF r.kind = "panic" THEN Panic("Could not create PublicKey from bytes")
       ELSE Ok("publickey", [point |-> MkPoint(into_projective(r.val))])

PrivateKey_to_bytes(k) == Scalar_to_bytes(k.scalar)

PrivateKey_from_bytes(bytes) ==
    LET r == FRead(FrModulus, FrBytes, bytes)
    IN IF r.kind = "panic" THEN Panic("Could not create PublicKey from bytes")
       ELSE Ok("privatekey", [scalar |-> MkScalar(r.val)])

\* Variant: the private key returned is not the scalar that was multiplied.
create_keypair_mut(raw) ==
    LET s == Scalar_generate(raw)
        p == Point_from_scalar(s)
    IN <<[point |-> p], [scalar |-> Scalar_mul(s, s)]>>

\* `raw` is the scalar Scalar::generate sampled.
create_keypair(raw) ==
    LET s == Scalar_generate(raw)
        p == Point_from_scalar(s)
    IN <<[point |-> p], [scalar |-> s]>>

(***************************************************************************)
(* The caller.  a, b, c are scalars it holds and P, Q points it holds; op, *)
(* args and ret are its last call, the arguments and what came back.  A    *)
(* call that returns a point stores it in P and keeps the old P in Q.      *)
(***************************************************************************)
U32Inputs == (0..MaxU32) \cup {1024}
ScalarInputs == {Scalar_from_u32(v) : v \in U32Inputs}

SeqsUpTo(S, n) == UNION {[1..k -> S] : k \in 0..n}

\* Encodings offered to Scalar::from_bytes and PrivateKey::from_bytes: nothing,
\* single bytes inside and outside the field, and the encoding of a, alone and
\* followed by extra bytes.
ByteSamples == {0, FrModulus - 1, FrModulus, 255}
ScalarByteInputs ==
    {<<>>}
        \cup {<<v>> : v \in ByteSamples}
        \cup {Scalar_to_bytes(a) \o e : e \in SeqsUpTo({9}, MaxExtra)}

\* Encodings offered to PublicKey::from_bytes: a subgroup point, a curve point
\* outside the subgroup, a pair off the curve, the identity, the identity flag
\* over other coordinates, a coordinate that is no field element, a flag that
\* is no boolean, truncations, and what the caller last encoded.
PointByteSamples ==
    { <<7, 3, 0>>, <<0, 2, 0>>, <<1, 1, 0>>, <<0, 1, 1>>, <<5, 5, 1>>,
      <<FqModulus, 3, 0>>, <<7, 3, 2>>, <<7, 3>> }

PointByteInputs ==
    PointByteSamples
        \cup {Point_to_bytes(Q)}
        \cup {Point_to_bytes(P) \o e : e \in SeqsUpTo({9}, MaxExtra)}

\* The sequences offered to hash_points: P, Q alternating, from either one.
PointSeqs ==
    {[i \in 1..k |-> IF i % 2 = 1 THEN P ELSE Q] : k \in 0..MaxPoints}
        \cup {[i \in 1..k |-> IF i % 2 = 1 THEN Q ELSE P] : k \in 0..MaxPoints}

Called(name, as, r) == op' = name /\ args' = as /\ ret' = r

\* The call returned: point p, when it is one, becomes the caller's P.
Keep == UNCHANGED <<a, b, c, P, Q, calls>>
Store(p) == P' = p /\ Q' = P /\ calls' = calls + 1 /\ UNCHANGED <<a, b, c>>

\* Before the calls that are followed, the caller holds the identity in Q and
\* the identity or the generator in P.
InitCommon ==
    /\ P \in {Point_infinity, Point_generator}
    /\ Q = Point_infinity
    /\ op = "none"
    /\ args = <<>>
    /\ ret = NoCall
    /\ calls = 0

InitScalar ==
    /\ a \in ScalarInputs
    /\ b \in ScalarInputs
    /\ c \in ScalarInputs
    /\ InitCommon
    /\ P = Point_infinity

InitPoint ==
    /\ a \in ScalarInputs
    /\ b = Scalar_from_u32(0)
    /\ c = Scalar_from_u32(0)
    /\ InitCommon

---------------------------------------------------------------------------
\* Scalar calls.
CallFromU32 ==
    \E v \in U32Inputs :
        Called("Scalar::from_u32", <<v>>, Ok("scalar", Scalar_from_u32(v)))
        /\ Keep

CallGenerate ==
    \E raw \in Fr :
        Called("Scalar::generate", <<>>, Ok("scalar", Scalar_generate(raw)))
        /\ Keep

CallMultiplicativeIdentity ==
    Called("Scalar::multiplicative_identity", <<>>,
           Ok("scalar", Scalar_multiplicative_identity))
    /\ Keep

CallPow ==
    \E e \in 0..MaxPow :
        Called("Scalar::pow", <<a, e>>, Ok("scalar", Scalar_pow(a, e)))
        /\ Keep

CallInverse ==
    Called("Scalar::inverse", <<a>>, Scalar_inverse(a)) /\ Keep

CallAdd ==
    Called("Scalar::add", <<a, b>>, Ok("scalar", Scalar_add(a, b)))
    /\ Keep

CallSub ==
    Called("Scalar::sub", <<a, b>>, Ok("scalar", Scalar_sub(a, b)))
    /\ Keep

CallMul ==
    Called("Scalar::mul", <<a, b>>, Ok("scalar", Scalar_mul(a, b)))
    /\ Keep

CallScalarEq ==
    Called("Scalar::eq", <<a, b>>, Ok("bool", Scalar_eq(a, b)))
    /\ Keep

CallScalarToBytes ==
    Called("Scalar::to_bytes", <<a>>, Ok("bytes", Scalar_to_bytes(a)))
    /\ Keep

CallScalarFromBytes ==
    \E bytes \in ScalarByteInputs :
        Called("Scalar::from_bytes", <<bytes>>, Scalar_from_bytes(bytes))
        /\ Keep

CallPrivateKeyToBytes ==
    Called("PrivateKey::to_bytes", <<[scalar |-> a]>>,
           Ok("bytes", PrivateKey_to_bytes([scalar |-> a])))
    /\ Keep

CallPrivateKeyFromBytes ==
    \E bytes \in ScalarByteInputs :
        Called("PrivateKey::from_bytes", <<bytes>>, PrivateKey_from_bytes(bytes))
        /\ Keep

---------------------------------------------------------------------------
\* Point calls.
CallInfinity ==
    /\ calls < MaxCalls
    /\ Called("Point::infinity", <<>>, Ok("point", Point_infinity))
    /\ Store(Point_infinity)

CallGenerator ==
    /\ calls < MaxCalls
    /\ Called("Point::generator", <<>>, Ok("point", Point_generator))
    /\ Store(Point_generator)

CallFromScalar ==
    /\ calls < MaxCalls
    /\ Called("Point::from_scalar", <<a>>, Ok("point", Point_from_scalar(a)))
    /\ Store(Point_from_scalar(a))

CallPointMul ==
    /\ calls < MaxCalls
    /\ Called("Point::mul", <<P, a>>, Ok("point", Point_mul(P, a)))
    /\ Store(Point_mul(P, a))

CallPointInverse ==
    /\ calls < MaxCalls
    /\ Called("Point::inverse", <<P>>, Ok("point", Point_inverse(P)))
    /\ Store(Point_inverse(P))

CallPointAdd ==
    /\ calls < MaxCalls
    /\ Called("Point::add", <<P, Q>>, Ok("point", Point_add(P, Q)))
    /\ Store(Point_add(P, Q))

CallPointSub ==
    /\ calls < MaxCalls
    /\ Called("Point::sub", <<P, Q>>, Ok("point", Point_sub(P, Q)))
    /\ Store(Point_sub(P, Q))

CallPointEq ==
    Called("Point::eq", <<P, Q>>, Ok("bool", Point_eq(P, Q)))
    /\ Keep

CallPointToBytes ==
    Called("Point::to_bytes", <<P>>, Ok("bytes", Point_to_bytes(P)))
    /\ Keep

CallPublicKeyToBytes ==
    Called("PublicKey::to_bytes", <<[point |-> P]>>,
           Ok("bytes", PublicKey_to_bytes([point |-> P])))
    /\ Keep

CallPublicKeyFromBytes ==
    /\ calls < MaxCalls
    /\ \E bytes \in PointByteInputs :
        LET r == PublicKey_from_bytes(bytes)
        IN /\ Called("PublicKey::from_bytes", <<bytes>>, r)
           /\ IF r.kind = "panic" THEN Keep ELSE Store(r.val.point)
   

CallCreateKeypair ==
    \E raw \in Fr :
        Called("create_keypair", <<>>, Ok("keypair", create_keypair(raw)))
        /\ Keep
   

CallHashPoints ==
    \E points \in PointSeqs :
        Called("Scalar::hash_points", <<points>>,
               Ok("scalar", Scalar_hash_points(points)))
        /\ Keep

---------------------------------------------------------------------------
NextScalar ==
    \/ CallFromU32
    \/ CallGenerate
    \/ CallMultiplicativeIdentity
    \/ CallPow
    \/ CallInverse
    \/ CallAdd
    \/ CallSub
    \/ CallMul
    \/ CallScalarEq
    \/ CallScalarToBytes
    \/ CallScalarFromBytes
    \/ CallPrivateKeyToBytes
    \/ CallPrivateKeyFromBytes

NextPoint ==
    \/ CallInfinity
    \/ CallGenerator
    \/ CallFromScalar
    \/ CallPointMul
    \/ CallPointInverse
    \/ CallPointAdd
    \/ CallPointSub
    \/ CallPointEq
    \/ CallPointToBytes
    \/ CallPublicKeyToBytes
    \/ CallPublicKeyFromBytes
    \/ CallCreateKeypair
    \/ CallHashPoints
    \/ CallScalarToBytes
    \/ CallScalarFromBytes

SpecScalar == InitScalar /\ [][NextScalar]_vars
SpecPoint == InitPoint /\ [][NextPoint]_vars
Spec == SpecPoint

(***************************************************************************)
(* Properties.                                                             *)
(***************************************************************************)
ScalarZero == Scalar_from_u32(0)

\* C1: Scalar::inverse on the additive identity fails, and the failure reaches
\* the caller (the expect() panic "Inverse failure"); no scalar comes back.
C1_InverseOfZeroFails ==
    (op = "Scalar::inverse" /\ Scalar_eq(args[1], ScalarZero))
        => (ret.kind = "panic" /\ ret.val = "Inverse failure")

C1_Witness ==
    /\ op = "Scalar::inverse"
    /\ args[1] = Scalar_from_u32(0)
    /\ ret.kind = "panic"

\* Membership in the curve and in its subgroup of prime order.
OnCurve(q) == q.infinity \/ QSq(q.y) = QAdd(QMul(QSq(q.x), q.x), CurveB % FqModulus)
InSubgroup(q) == OnCurve(q) /\ ProjIsZero(MulBits(q, BitsBE(FrModulus), ProjZero))

\* What the specification accepts as an encoding: exactly the element's width,
\* a value inside the field and, for a point, a boolean flag and a point of the
\* prime-order subgroup of the curve.
ValidScalarEncoding(bytes) ==
    Len(bytes) = FrBytes /\ LEValue(bytes) < FrModulus

ValidPointEncoding(bytes) ==
    /\ Len(bytes) = 2 * FqBytes + 1
    /\ LEValue(SubSeq(bytes, 1, FqBytes)) < FqModulus
    /\ LEValue(SubSeq(bytes, FqBytes + 1, 2 * FqBytes)) < FqModulus
    /\ bytes[2 * FqBytes + 1] \in {0, 1}
    /\ InSubgroup(AffRead(bytes).val)

\* C2: every from_bytes path fails on input that is the wrong length or no
\* valid encoding of a field or group element.
C2_FromBytesRejectsInvalid ==
    /\ (op \in {"Scalar::from_bytes", "PrivateKey::from_bytes"}
            /\ ~ValidScalarEncoding(args[1])) => ret.kind = "panic"
    /\ (op = "PublicKey::from_bytes" /\ ~ValidPointEncoding(args[1]))
            => ret.kind = "panic"

\* C3: decoding the encoding of a scalar or of a point (the identity included)
\* gives back an equal value, and encoding that value gives the same bytes.
C3_RoundTrip ==
    /\ (op = "Scalar::from_bytes" /\ args[1] = Scalar_to_bytes(a)) =>
            /\ ret.kind = "scalar"
            /\ Scalar_eq(ret.val, a)
            /\ Scalar_to_bytes(ret.val) = args[1]
    /\ op = "PublicKey::from_bytes" =>
            \A X \in {P, Q} :
                args[1] = Point_to_bytes(X) =>
                    /\ ret.kind = "publickey"
                    /\ Point_eq(ret.val.point, X)
                    /\ PublicKey_to_bytes(ret.val) = args[1]

C3_Witness ==
    /\ op = "PublicKey::from_bytes"
    /\ args[1] = Point_to_bytes(Q)
    /\ Q.point.z \notin {0, 1}
    /\ ret.kind = "publickey"
    /\ ret.val.point # Q

\* C4: create_keypair returns a pair whose public point is from_scalar of its
\* private scalar, whatever scalar was sampled, and never fails.
C4_KeypairConsistent ==
    op = "create_keypair" =>
        /\ ret.kind = "keypair"
        /\ Point_eq(ret.val[1].point, Point_from_scalar(ret.val[2].scalar))

C4_Witness ==
    /\ op = "create_keypair"
    /\ ret.kind = "keypair"
    /\ ret.val[2].scalar.bn > 1
    /\ ~Point_eq(ret.val[1].point, Point_infinity)

\* The two sequences hold equal points, in the same order.
SamePoints(ps, qs) ==
    Len(ps) = Len(qs) /\ \A i \in 1..Len(ps) : Point_eq(ps[i], qs[i])

\* C5: hash_points never fails (the empty sequence included) and its result
\* depends only on the ordered sequence of points, not on how they are
\* represented: hashing an equal sequence again gives the same scalar.
C5_HashDeterministic ==
    op = "Scalar::hash_points" =>
        /\ ret.kind = "scalar"
        /\ ret.val.bn \in Fr
        /\ \A ps \in PointSeqs :
                SamePoints(ps, args[1]) => Scalar_eq(Scalar_hash_points(ps), ret.val)

C5_Witness ==
    /\ op = "Scalar::hash_points"
    /\ args[1] = <<P>>
    /\ P # Q
    /\ Point_eq(P, Q)
    /\ ~Point_eq(P, Point_infinity)

\* C6: the field laws of Scalar add, sub and mul, and a * a.inverse() == 1 for
\* every a other than zero.
C6_FieldLaws ==
    /\ Scalar_eq(Scalar_add(Scalar_add(a, b), c), Scalar_add(a, Scalar_add(b, c)))
    /\ Scalar_eq(Scalar_add(a, b), Scalar_add(b, a))
    /\ Scalar_eq(Scalar_mul(a, Scalar_add(b, c)),
                 Scalar_add(Scalar_mul(a, b), Scalar_mul(a, c)))
    /\ Scalar_eq(Scalar_add(a, Scalar_sub(ScalarZero, a)), ScalarZero)
    /\ (op = "Scalar::inverse" /\ ~Scalar_eq(args[1], ScalarZero)) =>
            /\ ret.kind = "scalar"
            /\ Scalar_eq(Scalar_mul(args[1], ret.val), Scalar_multiplicative_identity)

C6_Witness ==
    /\ op = "Scalar::inverse"
    /\ ret.kind = "scalar"
    /\ ret.val # a
    /\ a.bn + b.bn >= FrModulus
    /\ b.bn + c.bn >= FrModulus
    /\ c.bn > a.bn

\* C7: Point::mul is compatible with scalar arithmetic, for every point held
\* and all scalars s, t.
C7_MulCompatible ==
    \A s, t \in ScalarInputs :
        /\ Point_eq(Point_mul(Point_mul(P, s), t), Point_mul(P, Scalar_mul(s, t)))
        /\ Point_eq(Point_mul(P, Scalar_add(s, t)),
                    Point_add(Point_mul(P, s), Point_mul(P, t)))

\* C8: point addition is commutative, has Point::infinity() as its identity,
\* and P + P.inverse() is the identity, under Point equality, whatever the
\* internal representations.
C8_GroupLaws ==
    /\ Point_eq(Point_add(P, Q), Point_add(Q, P))
    /\ Point_eq(Point_add(P, Point_infinity), P)
    /\ Point_eq(Point_add(Point_infinity, P), P)
    /\ Point_eq(Point_add(P, Point_inverse(P)), Point_infinity)
    /\ op = "Point::add" => Point_eq(ret.val, Point_add(args[2], args[1]))
    /\ op = "Point::inverse" => Point_eq(Point_add(args[1], ret.val), Point_infinity)

C8_Witness ==
    /\ op = "Point::add"
    /\ ~Point_eq(args[1], Point_infinity)
    /\ ~Point_eq(args[2], Point_infinity)
    /\ ~Point_eq(ret.val, Point_infinity)
    /\ ret.val # Point_add(args[2], args[1])

\* Repeated multiplication: s * s * ... * s, e times, from the identity.
RECURSIVE RepeatedMul(_, _)
RepeatedMul(s, e) ==
    IF e = 0 THEN Scalar_multiplicative_identity
    ELSE Scalar_mul(RepeatedMul(s, e - 1), s)

\* C9: Scalar::pow is exponentiation in the field; exponent 0 gives the
\* multiplicative identity for every base, zero included, and 2^10 = 1024.
C9_Pow ==
    op = "Scalar::pow" =>
        /\ ret.kind = "scalar"
        /\ Scalar_eq(ret.val, RepeatedMul(args[1], args[2]))
        /\ args[2] = 0 => Scalar_eq(ret.val, Scalar_multiplicative_identity)
        /\ (Scalar_eq(args[1], Scalar_from_u32(2)) /\ args[2] = 10)
                => Scalar_eq(ret.val, Scalar_from_u32(1024))

C9_Witness ==
    /\ op = "Scalar::pow"
    /\ args[1] = Scalar_from_u32(2)
    /\ args[2] = 10
    /\ ret.val = Scalar_from_u32(1024)

\* C10: Point::generator returns the point sampled from the fixed seed on
\* every call, whatever was called before, and from_scalar(s) is that point
\* multiplied by s.
C10_GeneratorFixed ==
    /\ op = "Point::generator" =>
            /\ ret.val.point = GroupRand(seed_from_u64(GeneratorSeed))
            /\ Point_eq(ret.val, Point_from_scalar(Scalar_multiplicative_identity))
    /\ op = "Point::from_scalar" =>
            Point_eq(ret.val, Point_mul(Point_generator, args[1]))

C10_Witness ==
    /\ op = "Point::from_scalar"
    /\ calls = MaxCalls
    /\ args[1].bn > 1
    /\ ~Point_eq(ret.val, Point_generator)
    /\ ~Point_eq(ret.val, Point_infinity)

====
